---- MODULE Spec2Model ----
(***************************************************************************)
(* Model of the Arclift backup orchestration engine                        *)
(* (internal/backup: Backup, ListBackups, PurgeOldBackups), of the S3      *)
(* storage adapter's key handling and of BackupConfig.validate.            *)
(*                                                                         *)
(* Local files are pairs <<directory index, kind>>, storage keys are       *)
(* tuples <<prefix, hostname, timestamp>>, timestamps are integers whose   *)
(* order is the chronological order of the configured date-time layout.    *)
(***************************************************************************)
EXTENDS Integers, Sequences, FiniteSets, TLC

VARIABLES
    rawCfg,       \* the BackupConfig as unmarshalled, before validate ran
    cfg,          \* BackupManager.cfg.Backup (config.BackupConfig)
    validateErr,  \* result of BackupConfig.validate: "unset" before the call
    storage,      \* full keys present in the bucket under any prefix
    now,          \* wall clock, the timestamp BuildTimestampedKey renders
    cancelled,    \* the caller's context.Context has been cancelled
    pc,           \* position of the engine
    i,            \* Backup: index of the directory being processed
    uploadPath,   \* archivedBackup: local variable uploadPath
    archiveResp,  \* archivedBackup: local variable archiveResp
    backupResp,   \* Backup: local variable backupResp
    err,          \* Backup: local variable err
    tempFiles,    \* local temporary files present on disk
    created,      \* temporary files created by the pipeline of directory i
    trace,        \* calls made on the collaborators during this invocation
    notifs,       \* notifications handed to the notifier store, in order
    backupRet,    \* return value of Backup: "none" until it returns
    keys,         \* PurgeOldBackups: local variable keys
    keysToDelete, \* PurgeOldBackups: local variable keysToDelete
    j,            \* PurgeOldBackups: index into keysToDelete
    purgeRet,     \* return value of PurgeOldBackups: "none" until it returns
    listRet,      \* what the last ListBackups call of a caller returned
    prevListRet,  \* what the ListBackups call before that one returned
    notifiersCfg, \* Notifier.cfg.Notifiers (config.NotifiersConfig)
    notifierStore, \* Notifier.store: the registered channels
    delivered,    \* delivery attempts made on the channels, in order
    jobPc,        \* the scheduled job: 0 between runs, else the step it is at
    runs,         \* number of times the schedule has fired the job
    Current,      \* config.Current, the package's current configuration
    getTrace,     \* the GetConfig calls made so far and what they returned
    failedBefore  \* timestamps whose delete failed in an earlier purge and
                  \* that no later purge has removed

vars == <<rawCfg, cfg, validateErr, storage, now, cancelled, pc, i, uploadPath,
          archiveResp, backupResp, err, tempFiles, created, trace, notifs,
          backupRet, keys, keysToDelete, j, purgeRet, listRet, prevListRet,
          notifiersCfg, notifierStore, delivered, jobPc, runs,
          Current, getTrace, failedBefore>>

(***************************************************************************)
(* Bounds of the model.                                                    *)
(***************************************************************************)
MaxDirs == 2
MaxRetention == 2
InitKeys == 3
MaxTicks == 1
MaxRuns == 2
MaxCalls == 4

(***************************************************************************)
(* The environment: configured names and the content of the directories.   *)
(***************************************************************************)
Prefix == "p"
Hostname == "h"
OtherHost == "g"
AllDirs == <<"/a", "/b", "/c", "/d">>
FilesIn(d) == d
DirsIn(d) == d + 1

NoError == "nil"
NoKey == <<>>
NoPath == <<>>

(***************************************************************************)
(* config.BackupConfig and its validation.                                 *)
(***************************************************************************)
MkConfig(dirs, r, cron, arch, enc, ks, kid) ==
    [Dirs |-> dirs, RetentionCount |-> r, Cron |-> cron, ArchiveDirs |-> arch,
     Encryption |-> [Enabled |-> enc, GPG |-> [KeyServer |-> ks, KeyID |-> kid]]]

validate_keepsEncryption(b) ==
    IF Len(b.Dirs) = 0 THEN [err |-> "dirs is required", cfg |-> b]
    ELSE IF b.RetentionCount <= 0
         THEN [err |-> "retention-count must be greater than 0", cfg |-> b]
    ELSE IF b.Cron = "" THEN [err |-> "cron is required", cfg |-> b]
    ELSE IF b.Encryption.Enabled /\ b.ArchiveDirs
              /\ (b.Encryption.GPG.KeyServer = "" \/ b.Encryption.GPG.KeyID = "")
         THEN [err |-> NoError, cfg |-> [b EXCEPT !.Encryption.Enabled = FALSE]]
    ELSE [err |-> NoError, cfg |-> b]

validate_keepsKeylessEncryption(b) ==
    IF Len(b.Dirs) = 0 THEN [err |-> "dirs is required", cfg |-> b]
    ELSE IF b.RetentionCount <= 0
         THEN [err |-> "retention-count must be greater than 0", cfg |-> b]
    ELSE IF b.Cron = "" THEN [err |-> "cron is required", cfg |-> b]
    ELSE IF b.Encryption.Enabled /\ ~b.ArchiveDirs
         THEN [err |-> NoError, cfg |-> [b EXCEPT !.Encryption.Enabled = FALSE]]
    ELSE [err |-> NoError, cfg |-> b]

validate_allowsZeroRetention(b) ==
    IF Len(b.Dirs) = 0 THEN [err |-> "dirs is required", cfg |-> b]
    ELSE IF b.RetentionCount < 0
         THEN [err |-> "retention-count must be greater than 0", cfg |-> b]
    ELSE IF b.Cron = "" THEN [err |-> "cron is required", cfg |-> b]
    ELSE [err |-> NoError, cfg |-> b]

validate(b) ==
    IF Len(b.Dirs) = 0 THEN [err |-> "dirs is required", cfg |-> b]
    ELSE IF b.RetentionCount <= 0
         THEN [err |-> "retention-count must be greater than 0", cfg |-> b]
    ELSE IF b.Cron = "" THEN [err |-> "cron is required", cfg |-> b]
    ELSE IF b.Encryption.Enabled /\ ~b.ArchiveDirs
         THEN [err |-> NoError, cfg |-> [b EXCEPT !.Encryption.Enabled = FALSE]]
    ELSE IF b.Encryption.Enabled
              /\ (b.Encryption.GPG.KeyServer = "" \/ b.Encryption.GPG.KeyID = "")
         THEN [err |-> NoError, cfg |-> [b EXCEPT !.Encryption.Enabled = FALSE]]
    ELSE [err |-> NoError, cfg |-> b]

(***************************************************************************)
(* config.LoadConfig and config.GetConfig.                                 *)
(***************************************************************************)
\* a nil *Config
NilConfig == [set |-> FALSE, cfg |-> MkConfig(<<>>, 0, "", FALSE, FALSE, "", "")]

Loaded(b) == [set |-> TRUE, cfg |-> b]

\* the configuration files of the machine: what viper reads at each path
ConfigFiles ==
    [path \in {"/etc/arclift/a.yaml", "/etc/arclift/b.yaml",
               "/etc/arclift/nodirs.yaml", "/etc/arclift/broken.yaml"} |->
        CASE path = "/etc/arclift/a.yaml" ->
                 [readable |-> TRUE,
                  content |-> MkConfig(<<1>>, 1, "0 0 * * *", TRUE, TRUE, "keyserver", "")]
          [] path = "/etc/arclift/b.yaml" ->
                 [readable |-> TRUE,
                  content |-> MkConfig(<<1, 2>>, 2, "0 0 * * *", FALSE, FALSE, "", "")]
          [] path = "/etc/arclift/nodirs.yaml" ->
                 [readable |-> TRUE,
                  content |-> MkConfig(<<>>, 1, "0 0 * * *", FALSE, FALSE, "", "")]
          [] OTHER ->
                 [readable |-> FALSE,
                  content |-> MkConfig(<<>>, 0, "", FALSE, FALSE, "", "")]]

LoadConfig(path) ==
    IF ~ConfigFiles[path].readable THEN [cfg |-> NilConfig, err |-> "read error"]
    ELSE IF validate(ConfigFiles[path].content).err # NoError
         THEN [cfg |-> NilConfig, err |-> validate(ConfigFiles[path].content).err]
    ELSE [cfg |-> Loaded(validate(ConfigFiles[path].content).cfg), err |-> NoError]

GetConfig_reloads(cur, path) ==
    IF LoadConfig(path).err # NoError
    THEN [Current |-> LoadConfig(path).cfg, cfg |-> NilConfig,
          err |-> LoadConfig(path).err, loaded |-> TRUE]
    ELSE [Current |-> LoadConfig(path).cfg, cfg |-> LoadConfig(path).cfg,
          err |-> NoError, loaded |-> TRUE]

\* GetConfig with config.Current = cur: the new Current, what is returned,
\* and whether LoadConfig was called
GetConfig(cur, path) ==
    IF ~cur.set
    THEN IF LoadConfig(path).err # NoError
         THEN [Current |-> LoadConfig(path).cfg, cfg |-> NilConfig,
               err |-> LoadConfig(path).err, loaded |-> TRUE]
         ELSE [Current |-> LoadConfig(path).cfg, cfg |-> LoadConfig(path).cfg,
               err |-> NoError, loaded |-> TRUE]
    ELSE [Current |-> cur, cfg |-> cur, err |-> NoError, loaded |-> FALSE]

(***************************************************************************)
(* Key scheme of the S3 adapter.                                           *)
(***************************************************************************)
BuildKey(prefix, hostname) == <<prefix, hostname>>

BuildTimestampedKey(prefix, hostname, t) == BuildKey(prefix, hostname) \o <<t>>

HasPrefix(key, root) ==
    /\ Len(key) >= Len(root)
    /\ SubSeq(key, 1, Len(root)) = root

TrimKey(key, root) ==
    IF HasPrefix(key, root) THEN SubSeq(key, Len(root) + 1, Len(key)) ELSE key

TrimPrefix(ks) ==
    [n \in 1..Len(ks) |-> TrimKey(ks[n], BuildKey(Prefix, Hostname))[1]]

DeleteKey_wrongHost(timestamp) == BuildKey(Prefix, OtherHost) \o <<timestamp>>

DeleteKey_rootOnly(timestamp) == BuildKey(Prefix, Hostname)

DeleteKey(timestamp) == BuildKey(Prefix, Hostname) \o <<timestamp>>

\* keys under the host's root key, in the ascending order S3 lists them
RECURSIVE AscendingSeq(_)
AscendingSeq(S) ==
    IF S = {} THEN <<>>
    ELSE LET m == CHOOSE x \in S : \A y \in S : x[3] <= y[3]
         IN <<m>> \o AscendingSeq(S \ {m})

List(store) ==
    AscendingSeq({k \in store : HasPrefix(k, BuildKey(Prefix, Hostname))})

SortDateTimes_unsorted(ts) == ts

\* datetime.SortDateTimes: newest first
RECURSIVE SortDateTimes(_)
SortDateTimes(ts) ==
    IF Len(ts) = 0 THEN <<>>
    ELSE LET n == CHOOSE a \in 1..Len(ts) : \A b \in 1..Len(ts) : ts[a] >= ts[b]
         IN <<ts[n]>> \o SortDateTimes([m \in 1..(Len(ts) - 1) |->
                                            IF m < n THEN ts[m] ELSE ts[m + 1]])

ListBackups(store) ==
    IF Len(List(store)) = 0 THEN <<>>
    ELSE SortDateTimes(TrimPrefix(List(store)))

\* the orders in which a store may return the keys under the host's root key
Listings(store) ==
    {l \in [1..Len(List(store)) -> {k \in store : HasPrefix(k, BuildKey(Prefix, Hostname))}] :
        \A a, b \in 1..Len(List(store)) : a # b => l[a] # l[b]}

ListBackupsResult_unsorted(ok, listing, e) ==
    IF ~ok THEN [keys |-> <<>>, err |-> e]
    ELSE IF Len(listing) = 0 THEN [keys |-> <<>>, err |-> NoError]
    ELSE [keys |-> TrimPrefix(listing), err |-> NoError]

ListBackupsResult_emptyIsError(ok, listing, e) ==
    IF ~ok THEN [keys |-> <<>>, err |-> e]
    ELSE IF Len(listing) = 0 THEN [keys |-> <<>>, err |-> "no backups found"]
    ELSE [keys |-> SortDateTimes(TrimPrefix(listing)), err |-> NoError]

\* ListBackups on what store.List returned: its listing, or the error e
ListBackupsResult(ok, listing, e) ==
    IF ~ok THEN [keys |-> <<>>, err |-> e]
    ELSE IF Len(listing) = 0 THEN [keys |-> <<>>, err |-> NoError]
    ELSE [keys |-> SortDateTimes(TrimPrefix(listing)), err |-> NoError]

(***************************************************************************)
(* Values of the engine.                                                   *)
(***************************************************************************)
NoList == [keys |-> <<>>, err |-> "none", store |-> {}]

EmptyResp == [BaseKey |-> NoKey, TotalFiles |-> 0, TotalDirs |-> 0, SuccessFiles |-> 0]

NoArchive == [ArchivePath |-> NoPath, TotalFiles |-> 0, TotalDirs |-> 0, SuccessFiles |-> 0]

ArchivePath(d) == <<d, "tar">>

EncryptedPath(p) == <<p[1], "gpg">>

SuccessChoices(d) == 0..FilesIn(d)

\* the error a context-aware storage call fails with
StorageError(isCancelled) ==
    IF isCancelled THEN "context canceled" ELSE "transport error"

Called(op, d, ok, n) == [op |-> op, dir |-> d, ok |-> ok, files |-> n, key |-> NoKey]

\* a call on the store that returned the key it wrote
Uploaded(op, d, n, k) == [Called(op, d, TRUE, n) EXCEPT !.key = k]

SuccessNotification_firstDir(d, resp) ==
    [kind |-> "success", dir |-> AllDirs[1], totalDirs |-> resp.TotalDirs,
     totalFiles |-> resp.TotalFiles, successFiles |-> resp.SuccessFiles,
     key |-> resp.BaseKey, err |-> NoError]

SuccessNotification(d, resp) ==
    [kind |-> "success", dir |-> AllDirs[d], totalDirs |-> resp.TotalDirs,
     totalFiles |-> resp.TotalFiles, successFiles |-> resp.SuccessFiles,
     key |-> resp.BaseKey, err |-> NoError]

FailureNotification(d, resp, e) ==
    [kind |-> "failure", dir |-> AllDirs[d], totalDirs |-> resp.TotalDirs,
     totalFiles |-> resp.TotalFiles, successFiles |-> 0,
     key |-> NoKey, err |-> e]

DeleteFailureNotification(k, e) ==
    [kind |-> "deleteFailure", dir |-> "", totalDirs |-> 0, totalFiles |-> 0,
     successFiles |-> 0, key |-> k, err |-> e]

(***************************************************************************)
(* The notifier store (internal/notifiers) and its configuration.          *)
(***************************************************************************)
MkNotifiers(enabled, discordEnabled, webhook) ==
    [Enabled |-> enabled, Discord |-> [Enabled |-> discordEnabled, Webhook |-> webhook]]

\* the defaults of a configuration file that names no notifier
DefaultNotifiers == MkNotifiers(FALSE, FALSE, "")

\* NotifiersConfig.validate, which is DiscordNotifierConfig.validate
NotifiersValidate(n) ==
    IF n.Discord.Enabled /\ n.Discord.Webhook = ""
    THEN [n EXCEPT !.Discord.Enabled = FALSE]
    ELSE n

\* Notifier.InitStore, when NewDiscordNotifier returns no error
InitStore(n) == IF n.Discord.Enabled THEN <<"discord">> ELSE <<>>

\* NotifiersIface.Enabled of a registered channel
ChannelEnabled(ch, n) == ch = "discord" /\ n.Discord.Enabled

\* the channels the loop of a Notify method calls, in order
Attempted(st, n) ==
    LET IsEnabled(ch) == ChannelEnabled(ch, n) IN SelectSeq(st, IsEnabled)

Outcomes(st, n) == [1..Len(Attempted(st, n)) -> BOOLEAN]

\* the attempts of one Notify method of the store, oks[k] telling whether
\* the k-th attempted channel delivered
Notify(st, n, nts, oks) ==
    IF Len(nts) = 0 THEN <<>>
    ELSE [k \in 1..Len(Attempted(st, n)) |->
             [channel |-> Attempted(st, n)[k], notification |-> nts[1], ok |-> oks[k]]]

(***************************************************************************)
(* Decisions of BackupManager.Backup and BackupManager.archivedBackup.     *)
(***************************************************************************)
UseArchivedPipeline_orEncryption(c) == c.ArchiveDirs \/ c.Encryption.Enabled

UseArchivedPipeline(c) == c.ArchiveDirs

NoProcessableFiles_negativeOnly(a) == a.SuccessFiles < 0

NoProcessableFiles(a) == a.SuccessFiles <= 0

EncryptionEnabled_never(c) == FALSE

EncryptionEnabled(c) == c.Encryption.Enabled

FilesAfterEncrypt_keepsArchive(files, archive, encrypted) == files \cup {encrypted}

FilesAfterEncrypt(files, archive, encrypted) == (files \cup {encrypted}) \ {archive}

UploadPathAfterEncrypt_keepsArchive(archive, encrypted) == archive

\* archivedBackup: uploadPath = encryptedFilePath
UploadPathAfterEncrypt(archive, encrypted) == encrypted

FilesAfterUpload(files, uploaded) == files \ {uploaded}

NotificationsFor_silentFailure(d, resp, e) ==
    IF e # NoError THEN <<>> ELSE <<SuccessNotification(d, resp)>>

NotificationsFor(d, resp, e) ==
    IF e # NoError THEN <<FailureNotification(d, resp, e)>>
    ELSE <<SuccessNotification(d, resp)>>

NextDir_abortOnFailure(d, e, n) == IF e # NoError THEN n + 1 ELSE d + 1

NextDir_stopOnCancel(d, e, n) == IF e = "context canceled" THEN n + 1 ELSE d + 1

NextDir_skipsOne(d, e, n) == d + 2

NextDir_abortOnDeliveryFailure(d, e, n) ==
    IF \E k \in 1..Len(delivered') : ~delivered'[k].ok THEN n + 1 ELSE d + 1

NextDir(d, e, n) == d + 1

BackupResult_lastError(ns) ==
    IF \E n \in 1..Len(ns) : ns[n].kind = "failure" THEN "error" ELSE NoError

BackupResult(ns) == NoError

(***************************************************************************)
(* One Backup invocation.                                                  *)
(***************************************************************************)
listVars == <<listRet, prevListRet>>

purgeVars == <<keys, keysToDelete, j, purgeRet, listVars, failedBefore>>

configVars == <<rawCfg, cfg, validateErr>>

\* what the process around the engine holds and no engine step changes
hostVars == <<notifiersCfg, notifierStore, jobPc, runs, Current, getTrace>>

BackupBegin ==
    /\ pc = "idle"
    /\ pc' = "loop"
    /\ i' = 1
    /\ UNCHANGED <<configVars, hostVars, delivered, storage, now, cancelled, uploadPath, archiveResp,
                   backupResp, err, tempFiles, created, trace, notifs, backupRet,
                   purgeVars>>

BackupLoop ==
    /\ pc = "loop"
    /\ IF i > Len(cfg.Dirs)
       THEN /\ pc' = "done"
            /\ backupRet' = BackupResult(notifs)
            /\ UNCHANGED <<uploadPath, archiveResp, backupResp, err, created>>
       ELSE /\ pc' = IF UseArchivedPipeline(cfg) THEN "archive" ELSE "uploadDir"
            /\ uploadPath' = NoPath
            /\ archiveResp' = NoArchive
            /\ backupResp' = EmptyResp
            /\ err' = NoError
            /\ created' = {}
            /\ UNCHANGED backupRet
    /\ UNCHANGED <<configVars, hostVars, delivered, storage, now, cancelled, i, tempFiles, trace,
                   notifs, purgeVars>>

unArchivedBackup ==
    /\ pc = "uploadDir"
    /\ \E ok \in BOOLEAN, s \in SuccessChoices(i) :
          /\ ok => ~cancelled
          /\ trace' = Append(trace,
                 IF ok THEN Uploaded("UploadDir", i, s,
                                     BuildTimestampedKey(Prefix, Hostname, now))
                 ELSE Called("UploadDir", i, FALSE, 0))
          /\ IF ok
             THEN /\ storage' = storage \cup {BuildTimestampedKey(Prefix, Hostname, now)}
                  /\ backupResp' = [BaseKey |-> BuildTimestampedKey(Prefix, Hostname, now),
                                    TotalFiles |-> FilesIn(i), TotalDirs |-> DirsIn(i),
                                    SuccessFiles |-> s]
                  /\ err' = NoError
             ELSE /\ storage' = storage
                  /\ backupResp' = EmptyResp
                  /\ err' = StorageError(cancelled)
    /\ pc' = "notify"
    /\ UNCHANGED <<configVars, hostVars, delivered, now, cancelled, i, uploadPath, archiveResp, tempFiles,
                   created, notifs, backupRet, purgeVars>>

ArchiveDirFails ==
    /\ pc = "archive"
    /\ trace' = Append(trace, Called("ArchiveDir", i, FALSE, 0))
    /\ backupResp' = EmptyResp
    /\ err' = "archive error"
    /\ pc' = "notify"
    /\ UNCHANGED <<configVars, hostVars, delivered, storage, now, cancelled, i, uploadPath, archiveResp,
                   tempFiles, created, notifs, backupRet, purgeVars>>

ArchiveDir ==
    /\ pc = "archive"
    /\ \E s \in SuccessChoices(i) :
          LET resp == [ArchivePath |-> ArchivePath(i), TotalFiles |-> FilesIn(i),
                       TotalDirs |-> DirsIn(i), SuccessFiles |-> s]
          IN /\ trace' = Append(trace, Called("ArchiveDir", i, TRUE, s))
             /\ archiveResp' = resp
             /\ tempFiles' = tempFiles \cup {resp.ArchivePath}
             /\ created' = created \cup {resp.ArchivePath}
             /\ IF NoProcessableFiles(resp)
                THEN /\ backupResp' = EmptyResp
                     /\ err' = "no processable files"
                     /\ pc' = "notify"
                     /\ UNCHANGED uploadPath
                ELSE /\ uploadPath' = resp.ArchivePath
                     /\ pc' = IF EncryptionEnabled(cfg) THEN "fetchKey" ELSE "uploadFile"
                     /\ UNCHANGED <<backupResp, err>>
    /\ UNCHANGED <<configVars, hostVars, delivered, storage, now, cancelled, i, notifs, backupRet, purgeVars>>

FetchGPGPubKey ==
    /\ pc = "fetchKey"
    /\ \E ok \in BOOLEAN :
          /\ trace' = Append(trace, Called("FetchGPGPubKeyFromKeyServer", i, ok, 0))
          /\ IF ok
             THEN /\ pc' = "encrypt"
                  /\ UNCHANGED <<backupResp, err>>
             ELSE /\ backupResp' = EmptyResp
                  /\ err' = "key fetch error"
                  /\ pc' = "notify"
    /\ UNCHANGED <<configVars, hostVars, delivered, storage, now, cancelled, i, uploadPath, archiveResp,
                   tempFiles, created, notifs, backupRet, purgeVars>>

EncryptFile ==
    /\ pc = "encrypt"
    /\ \E ok \in BOOLEAN :
          /\ trace' = Append(trace, Called("EncryptFile", i, ok, 0))
          /\ IF ok
             THEN /\ uploadPath' = UploadPathAfterEncrypt(archiveResp.ArchivePath,
                                        EncryptedPath(archiveResp.ArchivePath))
                  /\ tempFiles' = FilesAfterEncrypt(tempFiles, archiveResp.ArchivePath,
                                                    EncryptedPath(archiveResp.ArchivePath))
                  /\ created' = created \cup {EncryptedPath(archiveResp.ArchivePath)}
                  /\ pc' = "uploadFile"
                  /\ UNCHANGED <<backupResp, err>>
             ELSE /\ backupResp' = EmptyResp
                  /\ err' = "encryption error"
                  /\ pc' = "notify"
                  /\ UNCHANGED <<uploadPath, tempFiles, created>>
    /\ UNCHANGED <<configVars, hostVars, delivered, storage, now, cancelled, i, archiveResp, notifs,
                   backupRet, purgeVars>>

UploadFile ==
    /\ pc = "uploadFile"
    /\ \E ok \in BOOLEAN :
          /\ ok => ~cancelled
          /\ trace' = Append(trace,
                 IF ok THEN Uploaded("UploadFile", i, 0,
                                     BuildTimestampedKey(Prefix, Hostname, now))
                 ELSE Called("UploadFile", i, FALSE, 0))
          /\ IF ok
             THEN /\ storage' = storage \cup {BuildTimestampedKey(Prefix, Hostname, now)}
                  /\ tempFiles' = FilesAfterUpload(tempFiles, uploadPath)
                  /\ backupResp' = [BaseKey |-> BuildTimestampedKey(Prefix, Hostname, now),
                                    TotalFiles |-> archiveResp.TotalFiles,
                                    TotalDirs |-> archiveResp.TotalDirs,
                                    SuccessFiles |-> archiveResp.SuccessFiles]
                  /\ err' = NoError
             ELSE /\ backupResp' = EmptyResp
                  /\ err' = StorageError(cancelled)
                  /\ UNCHANGED <<storage, tempFiles>>
    /\ pc' = "notify"
    /\ UNCHANGED <<configVars, hostVars, delivered, now, cancelled, i, uploadPath, archiveResp, created,
                   notifs, backupRet, purgeVars>>

BackupNotify ==
    /\ pc = "notify"
    /\ notifs' = notifs \o NotificationsFor(i, backupResp, err)
    /\ \E oks \in Outcomes(notifierStore, notifiersCfg) :
          delivered' = delivered \o Notify(notifierStore, notifiersCfg,
                                           NotificationsFor(i, backupResp, err), oks)
    /\ i' = NextDir(i, err, Len(cfg.Dirs))
    /\ pc' = "loop"
    /\ UNCHANGED <<configVars, hostVars, storage, now, cancelled, uploadPath, archiveResp,
                   backupResp, err, tempFiles, created, trace, backupRet, purgeVars>>

(***************************************************************************)
(* The environment of an invocation: the clock and the caller's context.   *)
(***************************************************************************)
Tick ==
    /\ pc \notin {"done", "listed"}
    /\ now < InitKeys + 1 + MaxTicks
    /\ now' = now + 1
    /\ UNCHANGED <<configVars, hostVars, delivered, storage, cancelled, pc, i, uploadPath, archiveResp,
                   backupResp, err, tempFiles, created, trace, notifs, backupRet,
                   purgeVars>>

Cancel ==
    /\ pc \notin {"done", "listed"}
    /\ ~cancelled
    /\ cancelled' = TRUE
    /\ trace' = Append(trace, Called("Cancel", i, TRUE, 0))
    /\ UNCHANGED <<configVars, hostVars, delivered, storage, now, pc, i, uploadPath, archiveResp,
                   backupResp, err, tempFiles, created, notifs, backupRet,
                   purgeVars>>

\* a configured directory is named by its index into AllDirs
DirLists == {[n \in 1..m |-> n] : m \in 1..MaxDirs}

\* Backup reads neither the retention count nor the cron expression
EngineConfigs ==
    {MkConfig(ds, r, "0 0 * * *", arch, enc, "keyserver", "keyid") :
        ds \in DirLists, r \in {1}, arch \in BOOLEAN, enc \in BOOLEAN}

Untouched ==
    /\ validateErr = "unset"
    /\ now = InitKeys + 1
    /\ cancelled = FALSE
    /\ pc = "idle"
    /\ i = 0
    /\ uploadPath = NoPath
    /\ archiveResp = NoArchive
    /\ backupResp = EmptyResp
    /\ err = NoError
    /\ tempFiles = {}
    /\ created = {}
    /\ trace = <<>>
    /\ notifs = <<>>
    /\ backupRet = "none"
    /\ keys = <<>>
    /\ keysToDelete = <<>>
    /\ j = 0
    /\ purgeRet = "none"
    /\ listRet = NoList
    /\ prevListRet = NoList
    /\ delivered = <<>>
    /\ jobPc = 0
    /\ runs = 0
    /\ Current = NilConfig
    /\ getTrace = <<>>
    /\ failedBefore = {}

\* a manager built from a configuration that names no notifier
NoNotifiers ==
    /\ notifiersCfg = NotifiersValidate(DefaultNotifiers)
    /\ notifierStore = InitStore(notifiersCfg)

Init ==
    /\ NoNotifiers
    /\ cfg \in EngineConfigs
    /\ rawCfg = cfg
    /\ storage = {}
    /\ Untouched

Next ==
    \/ BackupBegin
    \/ BackupLoop
    \/ unArchivedBackup
    \/ ArchiveDirFails
    \/ ArchiveDir
    \/ FetchGPGPubKey
    \/ EncryptFile
    \/ UploadFile
    \/ BackupNotify
    \/ Tick
    \/ Cancel

Spec == Init /\ [][Next]_vars

(***************************************************************************)
(* BackupManager.PurgeOldBackups.                                          *)
(***************************************************************************)
NeedsPurge(ks, retention) == ~(Len(ks) <= retention)

KeysToDelete_newestFirst(ks, retention) == SubSeq(ks, 1, Len(ks) - retention)

KeysToDelete_onlyOldest(ks, retention) == SubSeq(ks, Len(ks), Len(ks))

KeysToDelete_fromRetained(ks, retention) == SubSeq(ks, retention, Len(ks))

KeysToDelete(ks, retention) == SubSeq(ks, retention + 1, Len(ks))

NextKey_stopOnFailure(n, ok, last) == IF ok THEN n + 1 ELSE last + 1

NextKey(n, ok, last) == n + 1

DeleteNotifications_none(k, ok, e) == <<>>

DeleteNotifications(k, ok, e) ==
    IF ok THEN <<>> ELSE <<DeleteFailureNotification(k, e)>>

PurgeResult_deleteError(ns) ==
    IF \E n \in 1..Len(ns) : ns[n].kind = "deleteFailure" THEN "error" ELSE NoError

PurgeResult(ns) == NoError

backupVars == <<i, uploadPath, archiveResp, backupResp, err, tempFiles, created,
                backupRet>>

PurgeList ==
    /\ pc = "idle"
    /\ \E ok \in BOOLEAN, listing \in Listings(storage) :
          LET r == ListBackupsResult(ok, listing, StorageError(cancelled))
          IN /\ ok => ~cancelled
             /\ trace' = Append(trace, Called("List", 0, ok, 0))
             /\ keys' = r.keys
             /\ IF r.err # NoError
                THEN /\ purgeRet' = r.err
                     /\ pc' = "done"
                     /\ UNCHANGED <<keysToDelete, j>>
                ELSE IF NeedsPurge(r.keys, cfg.RetentionCount)
                THEN /\ keysToDelete' = KeysToDelete(r.keys, cfg.RetentionCount)
                     /\ j' = 1
                     /\ pc' = "delete"
                     /\ UNCHANGED purgeRet
                ELSE /\ purgeRet' = NoError
                     /\ pc' = "done"
                     /\ UNCHANGED <<keysToDelete, j>>
    /\ UNCHANGED <<configVars, hostVars, delivered, storage, now, cancelled, backupVars, notifs, listVars, failedBefore>>

PurgeDelete ==
    /\ pc = "delete"
    /\ j <= Len(keysToDelete)
    /\ \E ok \in BOOLEAN :
          /\ ok => ~cancelled
          /\ trace' = Append(trace, Called("Delete", keysToDelete[j], ok, 0))
          /\ storage' = IF ok THEN storage \ {DeleteKey(keysToDelete[j])} ELSE storage
          /\ notifs' = notifs \o DeleteNotifications(keysToDelete[j], ok,
                                                     StorageError(cancelled))
          /\ \E oks \in Outcomes(notifierStore, notifiersCfg) :
                delivered' = delivered \o
                    Notify(notifierStore, notifiersCfg,
                           DeleteNotifications(keysToDelete[j], ok,
                                               StorageError(cancelled)), oks)
          /\ j' = NextKey(j, ok, Len(keysToDelete))
    /\ UNCHANGED <<configVars, hostVars, now, cancelled, pc, backupVars, keys, keysToDelete,
                   purgeRet, listVars, failedBefore>>

PurgeDone ==
    /\ pc = "delete"
    /\ j > Len(keysToDelete)
    /\ purgeRet' = PurgeResult(notifs)
    /\ pc' = "done"
    /\ UNCHANGED <<configVars, hostVars, delivered, storage, now, cancelled, backupVars, trace, notifs,
                   keys, keysToDelete, j, listVars, failedBefore>>

\* a caller of ListBackups alone (the list command)
ListBackupsCall ==
    /\ pc = "idle"
    /\ \E ok \in BOOLEAN, listing \in Listings(storage) :
          LET r == ListBackupsResult(ok, listing, StorageError(cancelled))
          IN /\ ok => ~cancelled
             /\ trace' = Append(trace, Called("List", 0, ok, 0))
             /\ listRet' = [keys |-> r.keys, err |-> r.err, store |-> storage]
    /\ prevListRet' = listRet
    /\ pc' = "listed"
    /\ UNCHANGED <<configVars, hostVars, delivered, storage, now, cancelled, backupVars, notifs, keys,
                   keysToDelete, j, purgeRet, failedBefore>>

\* the timestamps whose delete has failed and that are still stored once
\* the calls of tr are over: a failed request leaves its key where it was
StillStored(before, tr) ==
    (before \cup {tr[n].dir : n \in {m \in DOMAIN tr : tr[m].op = "Delete" /\ ~tr[m].ok}})
        \ {tr[n].dir : n \in {m \in DOMAIN tr : tr[m].op = "Delete" /\ tr[m].ok}}

\* the caller invokes the engine again: the locals of the last call are gone
InvokeAgain ==
    /\ pc \in {"done", "listed"}
    /\ pc' = "idle"
    /\ trace' = <<>>
    /\ notifs' = <<>>
    /\ keys' = <<>>
    /\ keysToDelete' = <<>>
    /\ j' = 0
    /\ purgeRet' = "none"
    /\ delivered' = <<>>
    /\ failedBefore' = StillStored(failedBefore, trace)
    /\ UNCHANGED <<configVars, hostVars, storage, now, cancelled, backupVars, listVars>>

PurgeConfigs ==
    {MkConfig(<<1>>, r, "0 0 * * *", FALSE, FALSE, "", "") : r \in 1..MaxRetention}

OwnKeys == {BuildTimestampedKey(Prefix, Hostname, t) : t \in 1..InitKeys}

ForeignKeys == {BuildTimestampedKey(Prefix, OtherHost, 1)}

InitPurge ==
    /\ NoNotifiers
    /\ cfg \in PurgeConfigs
    /\ rawCfg = cfg
    /\ \E own \in SUBSET OwnKeys, foreign \in SUBSET ForeignKeys :
          storage = own \cup foreign
    /\ Untouched

NextPurge ==
    \/ PurgeList
    \/ PurgeDelete
    \/ PurgeDone
    \/ ListBackupsCall
    \/ InvokeAgain
    \/ Cancel

SpecPurge == InitPurge /\ [][NextPurge]_vars

(***************************************************************************)
(* One engine operation, Backup, ListBackups or PurgeOldBackups, on a      *)
(* bucket that holds backups of this host and of another.                  *)
(***************************************************************************)
InitOps ==
    /\ NoNotifiers
    /\ cfg \in EngineConfigs
    /\ rawCfg = cfg
    /\ storage = OwnKeys \cup ForeignKeys
    /\ Untouched

NextOps ==
    \/ BackupBegin
    \/ BackupLoop
    \/ unArchivedBackup
    \/ ArchiveDirFails
    \/ ArchiveDir
    \/ FetchGPGPubKey
    \/ EncryptFile
    \/ UploadFile
    \/ BackupNotify
    \/ PurgeList
    \/ PurgeDelete
    \/ PurgeDone
    \/ ListBackupsCall
    \/ Tick
    \/ Cancel

SpecOps == InitOps /\ [][NextOps]_vars

(***************************************************************************)
(* Backup or PurgeOldBackups of a manager whose notifier store was built   *)
(* from a validated notifiers configuration.                               *)
(***************************************************************************)
RawNotifiers ==
    {MkNotifiers(en, den, wh) :
        en \in BOOLEAN, den \in BOOLEAN, wh \in {"", "https://discord/webhook"}}

NotifyConfigs ==
    {MkConfig(ds, 1, "0 0 * * *", FALSE, FALSE, "", "") : ds \in DirLists}

InitNotify ==
    /\ \E raw \in RawNotifiers : notifiersCfg = NotifiersValidate(raw)
    /\ notifierStore = InitStore(notifiersCfg)
    /\ cfg \in NotifyConfigs
    /\ rawCfg = cfg
    /\ storage = OwnKeys
    /\ Untouched

NextNotify ==
    \/ BackupBegin
    \/ BackupLoop
    \/ unArchivedBackup
    \/ BackupNotify
    \/ PurgeList
    \/ PurgeDelete
    \/ PurgeDone

SpecNotify == InitNotify /\ [][NextNotify]_vars

(***************************************************************************)
(* The scheduled backup job of the root command: every time the cron       *)
(* schedule fires, the job function calls its steps one after the other.   *)
(***************************************************************************)
JobSteps_purgeFirst == <<"PurgeOldBackups", "Backup">>

\* the calls in the body of the job function, in order
JobSteps == <<"Backup", "PurgeOldBackups">>

\* the job is inside the call of this engine operation
Running(step) == jobPc \in 1..Len(JobSteps) /\ JobSteps[jobPc] = step

\* the schedule fires at a new instant and the job function is entered
JobFire ==
    /\ jobPc = 0
    /\ runs < MaxRuns
    /\ runs' = runs + 1
    /\ jobPc' = 1
    /\ now' = now + 1
    /\ pc' = "idle"
    /\ i' = 0
    /\ uploadPath' = NoPath
    /\ archiveResp' = NoArchive
    /\ backupResp' = EmptyResp
    /\ err' = NoError
    /\ created' = {}
    /\ trace' = <<>>
    /\ notifs' = <<>>
    /\ delivered' = <<>>
    /\ backupRet' = "none"
    /\ keys' = <<>>
    /\ keysToDelete' = <<>>
    /\ j' = 0
    /\ purgeRet' = "none"
    /\ UNCHANGED <<configVars, notifiersCfg, notifierStore, Current, getTrace,
                   storage, cancelled, tempFiles, listVars, failedBefore>>

\* the engine operation the job called has returned: its error is logged
\* and the job goes on to its next call, or returns after the last one
JobNext ==
    /\ jobPc \in 1..Len(JobSteps)
    /\ pc = "done"
    /\ IF jobPc < Len(JobSteps)
       THEN jobPc' = jobPc + 1 /\ pc' = "idle"
       ELSE jobPc' = 0 /\ pc' = "done"
    /\ UNCHANGED <<configVars, notifiersCfg, notifierStore, runs, Current, getTrace,
                   delivered, storage,
                   now, cancelled, backupVars, trace, notifs, purgeVars>>

\* the job is the same for any number of directories: one and two are kept
JobDirLists == {<<1>>, <<1, 2>>}

JobConfigs ==
    {MkConfig(ds, 1, "0 0 * * *", arch, FALSE, "", "") :
        ds \in JobDirLists, arch \in BOOLEAN}

InitJob ==
    /\ NoNotifiers
    /\ cfg \in JobConfigs
    /\ rawCfg = cfg
    /\ storage = {}
    /\ Untouched

NextJob ==
    \/ JobFire
    \/ JobNext
    \/ Running("Backup") /\ BackupBegin
    \/ Running("Backup") /\ BackupLoop
    \/ Running("Backup") /\ unArchivedBackup
    \/ Running("Backup") /\ ArchiveDirFails
    \/ Running("Backup") /\ ArchiveDir
    \/ Running("Backup") /\ UploadFile
    \/ Running("Backup") /\ BackupNotify
    \/ Running("PurgeOldBackups") /\ PurgeList
    \/ Running("PurgeOldBackups") /\ PurgeDelete
    \/ Running("PurgeOldBackups") /\ PurgeDone

SpecJob == InitJob /\ [][NextJob]_vars

(***************************************************************************)
(* The callers of config.GetConfig, one call after the other.              *)
(***************************************************************************)
GetConfigCall ==
    /\ Len(getTrace) < MaxCalls
    /\ \E path \in DOMAIN ConfigFiles :
          /\ Current' = GetConfig(Current, path).Current
          /\ getTrace' = Append(getTrace,
                 [path |-> path, cfg |-> GetConfig(Current, path).cfg,
                  err |-> GetConfig(Current, path).err,
                  loaded |-> GetConfig(Current, path).loaded])
    /\ UNCHANGED <<configVars, notifiersCfg, notifierStore, jobPc, runs, delivered,
                   storage, now, cancelled, pc, backupVars, trace, notifs, purgeVars>>

InitGetConfig ==
    /\ NoNotifiers
    /\ cfg = NilConfig.cfg
    /\ rawCfg = cfg
    /\ storage = {}
    /\ Untouched

NextGetConfig == GetConfigCall

SpecGetConfig == InitGetConfig /\ [][NextGetConfig]_vars

(***************************************************************************)
(* Loading a configuration: BackupConfig.validate on what was unmarshalled.*)
(***************************************************************************)
RawConfigs ==
    {MkConfig(ds, r, cron, arch, enc, ks, kid) :
        ds \in {<<>>} \cup DirLists, r \in -1..MaxRetention,
        cron \in {"", "0 0 * * *"}, arch \in BOOLEAN, enc \in BOOLEAN,
        ks \in {"", "keyserver"}, kid \in {"", "keyid"}}

Validate ==
    /\ validateErr = "unset"
    /\ cfg' = validate(cfg).cfg
    /\ validateErr' = validate(cfg).err
    /\ UNCHANGED <<rawCfg, hostVars, delivered, storage, now, cancelled, pc, backupVars, trace, notifs,
                   purgeVars>>

InitConfig ==
    /\ NoNotifiers
    /\ cfg \in RawConfigs
    /\ rawCfg = cfg
    /\ storage = {}
    /\ Untouched

NextConfig == Validate

SpecConfig == InitConfig /\ [][NextConfig]_vars

(***************************************************************************)
(* A configuration is loaded and, when validate accepts it, the manager    *)
(* built from it purges a bucket that holds backups of this host.          *)
(***************************************************************************)
\* PurgeOldBackups reads nothing of the archive and encryption settings
RawPurgeConfigs ==
    {MkConfig(ds, r, cron, FALSE, FALSE, "", "") :
        ds \in {<<>>} \cup DirLists, r \in -1..MaxRetention,
        cron \in {"", "0 0 * * *"}}

InitValidated ==
    /\ NoNotifiers
    /\ cfg \in RawPurgeConfigs
    /\ rawCfg = cfg
    /\ \E own \in SUBSET OwnKeys : storage = own
    /\ Untouched

\* GetConfig returns no configuration when validate fails: no manager then
Validated == validateErr = NoError

NextValidated ==
    \/ Validate
    \/ Validated /\ PurgeList
    \/ Validated /\ PurgeDelete
    \/ Validated /\ PurgeDone

SpecValidated == InitValidated /\ [][NextValidated]_vars

(***************************************************************************)
(* Observations on the calls and the notifications of an invocation.       *)
(***************************************************************************)
ConfiguredDirs == 1..Len(cfg.Dirs)

CallsOf(ops, d) == {n \in 1..Len(trace) : trace[n].op \in ops /\ trace[n].dir = d}

OkCallsOf(ops, d) == {n \in CallsOf(ops, d) : trace[n].ok}

PipelineStarts(d) == CallsOf({"ArchiveDir", "UploadDir"}, d)

Uploads(d) == CallsOf({"UploadFile", "UploadDir"}, d)

PipelineSucceeded(d) == OkCallsOf({"UploadFile", "UploadDir"}, d) # {}

NotificationsOf(d) == {n \in 1..Len(notifs) : notifs[n].dir = AllDirs[d]}

\* directory d has been processed and Backup has moved on
Passed(d) == d < i

CancelCalls == {n \in 1..Len(trace) : trace[n].op = "Cancel"}

\* the cancellations that fired while Backup was at a directory
CancelsDuringBackup == {n \in CancelCalls : trace[n].dir \in ConfiguredDirs}

Listed == {keys[n] : n \in 1..Len(keys)}

Oldest(S, k) == {t \in S : Cardinality({u \in S : u < t}) < k}

DeleteRequests == {n \in 1..Len(trace) : trace[n].op = "Delete"}

Requested == {trace[n].dir : n \in DeleteRequests}

Removed == {trace[n].dir : n \in {m \in DeleteRequests : trace[m].ok}}

StoredTimestamps ==
    {k[3] : k \in {x \in storage : HasPrefix(x, BuildKey(Prefix, Hostname))}}

PurgeReturned == pc = "done" /\ purgeRet = NoError

Surplus == Len(keys) - cfg.RetentionCount

(***************************************************************************)
(* C1 as stated: when PurgeOldBackups has returned, nothing was deleted    *)
(* if N <= R, and otherwise exactly the N - R oldest listed keys were      *)
(* deleted.  A delete that fails leaves its key in place.                  *)
(***************************************************************************)
C1_ExactlyOldestDeleted ==
    PurgeReturned =>
        IF Len(keys) <= cfg.RetentionCount
        THEN Removed = {}
        ELSE /\ Cardinality(Removed) = Surplus
             /\ Removed = Oldest(Listed, Surplus)

(***************************************************************************)
(* C1 amended: when PurgeOldBackups has returned, no delete request was    *)
(* issued if N <= R; otherwise exactly N - R delete requests were issued,  *)
(* one for each of the N - R oldest listed keys, the keys gone from the    *)
(* storage are exactly those whose request succeeded, and they are all the *)
(* N - R oldest keys when no request failed.                               *)
(***************************************************************************)
C1_OldestRequestedForDeletion ==
    PurgeReturned =>
        /\ StoredTimestamps = Listed \ Removed
        /\ IF Len(keys) <= cfg.RetentionCount
           THEN DeleteRequests = {}
           ELSE /\ Cardinality(DeleteRequests) = Surplus
                /\ Requested = Oldest(Listed, Surplus)
                /\ Cardinality(Requested) = Surplus
                /\ (\A n \in DeleteRequests : trace[n].ok)
                       => Removed = Oldest(Listed, Surplus)

C1_Witness ==
    /\ PurgeReturned
    /\ cfg.RetentionCount = 2
    /\ keys = <<3, 2, 1>>
    /\ Removed = {1}
    /\ StoredTimestamps = {2, 3}

(***************************************************************************)
(* C2: in one Backup invocation no step of a directory's pipeline is ever  *)
(* run twice, and when Backup returns the pipeline of every configured     *)
(* directory has been run exactly once, whatever the earlier directories'  *)
(* outcomes were.                                                          *)
(***************************************************************************)
C2_EachDirectoryOnce ==
    /\ \A d \in ConfiguredDirs :
          /\ Cardinality(PipelineStarts(d)) <= 1
          /\ \A op \in {"FetchGPGPubKeyFromKeyServer", "EncryptFile", "UploadFile"} :
                Cardinality(CallsOf({op}, d)) <= 1
          /\ Passed(d) => Cardinality(PipelineStarts(d)) = 1
    /\ pc = "done" => \A d \in ConfiguredDirs : Cardinality(PipelineStarts(d)) = 1

C2_Witness ==
    /\ pc = "done"
    /\ Len(cfg.Dirs) >= 2
    /\ ~PipelineSucceeded(1)
    /\ Cardinality(PipelineStarts(1)) = 1
    /\ PipelineSucceeded(2)

(***************************************************************************)
(* C3: Backup returns no error whatever the directories' outcomes were;    *)
(* the failed directories show only as failure notifications.              *)
(***************************************************************************)
C3_BackupReturnsNil ==
    /\ backupRet \in {"none", NoError}
    /\ pc = "done" =>
          /\ backupRet = NoError
          /\ \A d \in ConfiguredDirs :
                ~PipelineSucceeded(d) =>
                    \E n \in NotificationsOf(d) : notifs[n].kind = "failure"

C3_Witness ==
    /\ pc = "done"
    /\ ~cfg.ArchiveDirs
    /\ Len(notifs) = 2
    /\ notifs[1].kind = "success" /\ notifs[1].dir = "/a"
    /\ notifs[1].key = BuildTimestampedKey(Prefix, Hostname, InitKeys + 1)
    /\ notifs[2].kind = "failure" /\ notifs[2].dir = "/b"
    /\ notifs[2].err = "transport error"
    /\ backupRet = NoError

(***************************************************************************)
(* C4: a directory Backup has passed has exactly one notification, a       *)
(* success one if and only if its pipeline succeeded and a failure one if  *)
(* and only if it failed; a directory not yet passed has none.             *)
(***************************************************************************)
C4_ExactlyOneNotification ==
    \A d \in ConfiguredDirs :
        IF Passed(d)
        THEN /\ Cardinality(NotificationsOf(d)) = 1
             /\ \A n \in NotificationsOf(d) :
                   /\ notifs[n].kind = "success" <=> PipelineSucceeded(d)
                   /\ notifs[n].kind = "failure" <=> ~PipelineSucceeded(d)
        ELSE NotificationsOf(d) = {}

C4_Witness ==
    /\ pc = "done"
    /\ Len(cfg.Dirs) >= 2
    /\ \E n \in NotificationsOf(1) : notifs[n].kind = "failure"
    /\ \E n \in NotificationsOf(2) : notifs[n].kind = "success"

C6_TempFilesRemoved ==
    (pc = "notify" /\ UseArchivedPipeline(cfg)) => created \cap tempFiles = {}

ArchivedNothing(d) ==
    \E n \in OkCallsOf({"ArchiveDir"}, d) : trace[n].files <= 0

C8_NoProcessableFiles ==
    \A d \in ConfiguredDirs :
        ArchivedNothing(d) =>
            /\ CallsOf({"FetchGPGPubKeyFromKeyServer", "EncryptFile",
                        "UploadFile", "UploadDir"}, d) = {}
            /\ (d = i /\ pc # "loop") =>
                  pc = "notify" /\ err = "no processable files"
            /\ Passed(d) =>
                  /\ NotificationsOf(d) # {}
                  /\ \A m \in NotificationsOf(d) :
                        /\ notifs[m].kind = "failure"
                        /\ notifs[m].err = "no processable files"

C8_Witness ==
    /\ pc = "done"
    /\ cfg.ArchiveDirs
    /\ EncryptionEnabled(cfg)
    /\ ArchivedNothing(1)
    /\ \E m \in NotificationsOf(1) : notifs[m].err = "no processable files"

(***************************************************************************)
(* C9: with archive-dirs false, no Backup invocation fetches a public key  *)
(* or encrypts a file, whatever the encryption-enabled flag is.            *)
(***************************************************************************)
C9_NoEncryptionWithoutArchive ==
    ~cfg.ArchiveDirs =>
        \A n \in 1..Len(trace) :
            trace[n].op \notin {"FetchGPGPubKeyFromKeyServer", "EncryptFile", "ArchiveDir"}

C9_Witness ==
    /\ pc = "done"
    /\ ~cfg.ArchiveDirs
    /\ cfg.Encryption.Enabled
    /\ Len(cfg.Dirs) >= 2
    /\ \A d \in ConfiguredDirs : PipelineSucceeded(d)

(***************************************************************************)
(* C10: validating an otherwise valid configuration that has encryption    *)
(* enabled and archive-dirs disabled returns no error and disables         *)
(* encryption, changing nothing else; so after every validation without    *)
(* error, encryption enabled implies archive-dirs enabled.                 *)
(***************************************************************************)
OtherwiseValid(b) == Len(b.Dirs) > 0 /\ b.RetentionCount > 0 /\ b.Cron # ""

C10_EncryptionNeedsArchive ==
    validateErr # "unset" =>
        /\ (OtherwiseValid(rawCfg) /\ rawCfg.Encryption.Enabled /\ ~rawCfg.ArchiveDirs)
               => /\ validateErr = NoError
                  /\ cfg = [rawCfg EXCEPT !.Encryption.Enabled = FALSE]
        /\ validateErr = NoError => (cfg.Encryption.Enabled => cfg.ArchiveDirs)

C10_Witness ==
    /\ validateErr = NoError
    /\ rawCfg.Encryption.Enabled
    /\ ~rawCfg.ArchiveDirs
    /\ rawCfg.Encryption.GPG.KeyServer # ""
    /\ rawCfg.Encryption.GPG.KeyID # ""
    /\ ~cfg.Encryption.Enabled

(***************************************************************************)
(* Observations on PurgeOldBackups and ListBackups.                        *)
(***************************************************************************)
IsDelete(c) == c.op = "Delete"

IsFailedDelete(c) == c.op = "Delete" /\ ~c.ok

DeleteCalls == SelectSeq(trace, IsDelete)

FailedDeletes == SelectSeq(trace, IsFailedDelete)

ListFailed == \E n \in 1..Len(trace) : trace[n].op = "List" /\ ~trace[n].ok

ListSucceeded == \E n \in 1..Len(trace) : trace[n].op = "List" /\ trace[n].ok

TimestampsIn(store) ==
    {k[3] : k \in {x \in store : HasPrefix(x, BuildKey(Prefix, Hostname))}}

StrictlyDescending(ks) == \A a, b \in 1..Len(ks) : a < b => ks[a] > ks[b]

(***************************************************************************)
(* C11: the delete requests PurgeOldBackups has issued are the deletion    *)
(* candidates in order, each once, all of them when it returns; every      *)
(* failed delete has exactly one deletion-failure notification carrying    *)
(* its key and its error, and the requests after it are still issued.      *)
(***************************************************************************)
C11_EveryCandidateRequestedOnce ==
    pc \in {"delete", "done"} =>
        /\ Len(DeleteCalls) <= Len(keysToDelete)
        /\ \A n \in 1..Len(DeleteCalls) : DeleteCalls[n].dir = keysToDelete[n]
        /\ PurgeReturned => Len(DeleteCalls) = Len(keysToDelete)
        /\ Len(notifs) = Len(FailedDeletes)
        /\ \A n \in 1..Len(notifs) :
              /\ notifs[n].kind = "deleteFailure"
              /\ notifs[n].key = FailedDeletes[n].dir
              /\ notifs[n].err \in {"transport error", "context canceled"}

C11_Witness ==
    /\ PurgeReturned
    /\ Len(keysToDelete) >= 2
    /\ ~DeleteCalls[1].ok
    /\ DeleteCalls[2].ok
    /\ Len(notifs) = 1
    /\ notifs[1].key = keysToDelete[1]

(***************************************************************************)
(* C12: PurgeOldBackups returns an error if and only if the listing        *)
(* failed; then no delete request was issued and no notification emitted.  *)
(* Failed deletes do not make it return an error.                          *)
(***************************************************************************)
C12_ErrorOnlyFromListing ==
    (pc = "done" /\ purgeRet # "none") =>
        /\ purgeRet # NoError <=> ListFailed
        /\ purgeRet # NoError => (Len(DeleteCalls) = 0 /\ Len(notifs) = 0)
        /\ Len(FailedDeletes) > 0 => purgeRet = NoError

C12_Witness ==
    /\ pc = "done"
    /\ purgeRet = "transport error"
    /\ Cardinality(StoredTimestamps) > cfg.RetentionCount
    /\ Len(DeleteCalls) = 0
    /\ Len(notifs) = 0

(***************************************************************************)
(* C13: a ListBackups call that succeeds returns the timestamp segments of *)
(* the keys stored under the host's root key, each once, in strictly       *)
(* descending order.                                                       *)
(***************************************************************************)
C13_ListedNewestFirst ==
    (pc = "listed" /\ listRet.err = NoError) =>
        /\ StrictlyDescending(listRet.keys)
        /\ {listRet.keys[n] : n \in 1..Len(listRet.keys)} = TimestampsIn(listRet.store)
        /\ Len(listRet.keys) = Cardinality(TimestampsIn(listRet.store))

C13_Witness ==
    /\ pc = "listed"
    /\ listRet.err = NoError
    /\ Len(listRet.keys) >= 3
    /\ listRet.store \cap ForeignKeys # {}

(***************************************************************************)
(* C14: with no key under the host's root key, a ListBackups whose listing *)
(* succeeds returns the empty sequence and no error, and PurgeOldBackups   *)
(* issues no delete request and returns no error.                          *)
(***************************************************************************)
C14_NoBackupsIsNoError ==
    /\ (pc = "listed" /\ ListSucceeded /\ TimestampsIn(listRet.store) = {})
           => (listRet.keys = <<>> /\ listRet.err = NoError)
    /\ (pc = "done" /\ ListSucceeded /\ StoredTimestamps = {} /\ keys = <<>>)
           => (purgeRet = NoError /\ Len(DeleteCalls) = 0 /\ Len(notifs) = 0)

C14_Witness ==
    /\ pc = "done"
    /\ ListSucceeded
    /\ StoredTimestamps = {}
    /\ storage # {}
    /\ purgeRet = NoError
    /\ listRet.err = NoError
    /\ listRet.keys = <<>>
    /\ listRet.store = storage

(***************************************************************************)
(* C15: two successful ListBackups calls on the same stored keys return    *)
(* the same sequence, in whatever order the store listed the keys, and a   *)
(* ListBackups call changes neither the storage nor the local files and    *)
(* calls nothing but the store's List.                                     *)
(***************************************************************************)
C15_ListIsIdempotentRead ==
    /\ []((listRet.err = NoError /\ prevListRet.err = NoError
             /\ listRet.store = prevListRet.store)
            => listRet.keys = prevListRet.keys)
    /\ [][(pc = "idle" /\ pc' = "listed") =>
            /\ storage' = storage
            /\ tempFiles' = tempFiles
            /\ notifs' = notifs
            /\ Len(trace') = Len(trace) + 1
            /\ trace'[Len(trace')].op = "List"]_vars

C15_Witness ==
    /\ pc = "listed"
    /\ listRet.err = NoError
    /\ prevListRet.err = NoError
    /\ listRet.store = prevListRet.store
    /\ Len(listRet.keys) >= 2

(***************************************************************************)
(* Observations on the notifications of a Backup invocation.               *)
(***************************************************************************)
\* the directories a notification's path names
DirsNamed(nt) == {d \in 1..Len(AllDirs) : AllDirs[d] = nt.dir}

\* ArchiveDir succeeded on d and counted processable files
ArchiveCounted(d) == \E m \in OkCallsOf({"ArchiveDir"}, d) : trace[m].files > 0

FailedAfterArchive(d) ==
    \E m \in CallsOf({"FetchGPGPubKeyFromKeyServer", "EncryptFile", "UploadFile"}, d) :
        ~trace[m].ok

\* the calls of the engine, the caller's cancellation left out
EngineCalls == {m \in 1..Len(trace) : trace[m].op # "Cancel"}

(***************************************************************************)
(* C16: the failure notification of a directory whose archive step         *)
(* succeeded and whose key fetch, encryption or upload failed reports the  *)
(* total-files and total-dirs counts the archive step gathered.            *)
(***************************************************************************)
C16_FailureCarriesCounts ==
    \A n \in 1..Len(notifs) : \A d \in DirsNamed(notifs[n]) :
        (notifs[n].kind = "failure" /\ ArchiveCounted(d) /\ FailedAfterArchive(d)) =>
            /\ notifs[n].totalFiles = FilesIn(d)
            /\ notifs[n].totalDirs = DirsIn(d)

(***************************************************************************)
(* C17: a success notification names a configured directory and carries    *)
(* that directory's total-dirs and total-files counts, the success-files   *)
(* count its pipeline gathered and the key its own upload returned.        *)
(***************************************************************************)
C17_SuccessCarriesOwnPipeline ==
    \A n \in 1..Len(notifs) : notifs[n].kind = "success" =>
        /\ DirsNamed(notifs[n]) = {n}
        /\ notifs[n].totalDirs = DirsIn(n)
        /\ notifs[n].totalFiles = FilesIn(n)
        /\ \E m \in OkCallsOf({"UploadFile", "UploadDir"}, n) :
              /\ notifs[n].key = trace[m].key
              /\ notifs[n].key # NoKey
        /\ \E m \in OkCallsOf({"ArchiveDir", "UploadDir"}, n) :
              notifs[n].successFiles = trace[m].files

C17_Witness ==
    /\ pc = "done"
    /\ cfg.ArchiveDirs
    /\ Len(notifs) = 2
    /\ notifs[1].kind = "success"
    /\ notifs[2].kind = "success"
    /\ notifs[1].key # notifs[2].key
    /\ notifs[1].successFiles # notifs[2].successFiles

(***************************************************************************)
(* C18: in a directory's pipeline every key fetch follows a successful     *)
(* archive, every encryption follows a successful key fetch, every upload  *)
(* of a file follows a successful archive and, with encryption enabled, a  *)
(* successful encryption; nothing follows the directory's upload or a      *)
(* failed step, and a disabled step is never invoked.                      *)
(***************************************************************************)
C18_StepsInOrder ==
    \A m \in EngineCalls :
        LET d == trace[m].dir
            Before(op) == \E a \in OkCallsOf({op}, d) : a < m
        IN /\ trace[m].op = "ArchiveDir" => cfg.ArchiveDirs
           /\ trace[m].op = "UploadDir" => ~cfg.ArchiveDirs
           /\ trace[m].op = "FetchGPGPubKeyFromKeyServer" =>
                 (cfg.Encryption.Enabled /\ Before("ArchiveDir"))
           /\ trace[m].op = "EncryptFile" =>
                 (cfg.Encryption.Enabled /\ Before("ArchiveDir")
                    /\ Before("FetchGPGPubKeyFromKeyServer"))
           /\ trace[m].op = "UploadFile" =>
                 /\ cfg.ArchiveDirs
                 /\ Before("ArchiveDir")
                 /\ cfg.Encryption.Enabled => Before("EncryptFile")
           /\ \A a \in EngineCalls :
                 (a < m /\ trace[a].dir = d) =>
                     (trace[a].ok /\ trace[a].op \notin {"UploadFile", "UploadDir"})

C18_Witness ==
    /\ pc = "done"
    /\ cfg.ArchiveDirs
    /\ cfg.Encryption.Enabled
    /\ Len(cfg.Dirs) >= 2
    /\ PipelineSucceeded(1)
    /\ \E m \in CallsOf({"EncryptFile"}, 2) : ~trace[m].ok

(***************************************************************************)
(* C19: the directories are processed one at a time in configuration       *)
(* order: no call is made for a directory before every earlier directory   *)
(* has its notification, no call is made for a directory after a call for  *)
(* a later one, the n-th notification is the n-th configured directory's,  *)
(* and Backup returns with one notification per directory.                 *)
(***************************************************************************)
C19_OneDirectoryAtATime ==
    /\ \A m \in EngineCalls : trace[m].dir <= Len(notifs) + 1
    /\ \A a, b \in EngineCalls : a < b => trace[a].dir <= trace[b].dir
    /\ \A n \in 1..Len(notifs) : notifs[n].dir = AllDirs[cfg.Dirs[n]]
    /\ pc = "done" => Len(notifs) = Len(cfg.Dirs)

C19_Witness ==
    /\ pc = "done"
    /\ Len(cfg.Dirs) >= 2
    /\ notifs[1].kind = "failure"
    /\ notifs[2].kind = "success"
    /\ \E a \in CallsOf({"ArchiveDir"}, 1), b \in CallsOf({"ArchiveDir"}, 2) : a < b

(***************************************************************************)
(* Observations on what an engine operation does to the stored keys.       *)
(***************************************************************************)
BackupSteps == {"loop", "archive", "uploadDir", "fetchKey", "encrypt", "uploadFile", "notify"}

UploadOps == {"UploadDir", "UploadFile"}

OpsCalled(tr) == {tr[n].op : n \in 1..Len(tr)}

\* the key Backup writes at this instant
KeyOfNow == BuildKey(Prefix, Hostname) \o <<now>>

\* the stored key of a listed timestamp segment
KeyOfTimestamp(ts) == BuildKey(Prefix, Hostname) \o <<ts>>

(***************************************************************************)
(* C20: a step of Backup leaves every stored key in place, adds at most    *)
(* the host's key of the current timestamp, and calls neither List nor     *)
(* Delete; a ListBackups call leaves the stored keys as they are and       *)
(* uploads and deletes nothing; a step of PurgeOldBackups adds no key,     *)
(* removes at most the whole key of the deletion candidate it is at, and   *)
(* never uploads.                                                          *)
(***************************************************************************)
C20_KeysOnlyCreatedOrDeletedWhole ==
    [][/\ pc \in BackupSteps =>
             /\ storage \subseteq storage'
             /\ storage' \subseteq storage \cup {KeyOfNow}
             /\ storage' # storage => pc \in {"uploadDir", "uploadFile"}
             /\ OpsCalled(trace') \cap {"List", "Delete"} = {}
       /\ (pc = "idle" /\ pc' = "listed") =>
             /\ storage' = storage
             /\ OpsCalled(trace') \cap (UploadOps \cup {"Delete"}) = {}
       /\ ((pc = "idle" /\ pc' \in {"delete", "done"}) \/ pc = "delete") =>
             /\ storage' \subseteq storage
             /\ storage' # storage =>
                   /\ pc = "delete"
                   /\ j <= Len(keysToDelete)
                   /\ KeyOfTimestamp(keysToDelete[j]) \in storage
                   /\ storage' = storage \ {KeyOfTimestamp(keysToDelete[j])}
             /\ OpsCalled(trace') \cap (UploadOps \cup {"ArchiveDir"}) = {}
      ]_vars

C20_Witness ==
    /\ pc = "done"
    /\ purgeRet = NoError
    /\ Len(keysToDelete) = InitKeys - cfg.RetentionCount
    /\ storage = {KeyOfTimestamp(InitKeys)} \cup ForeignKeys
    /\ OpsCalled(trace) = {"List", "Delete"}

C23_DisabledNotifiersDeliverNothing ==
    ~notifiersCfg.Enabled => delivered = <<>>

(***************************************************************************)
(* Observations on one run of the scheduled job.                           *)
(***************************************************************************)
PurgeCalls == {m \in 1..Len(trace) : trace[m].op \in {"List", "Delete"}}

BackupCalls ==
    {m \in 1..Len(trace) :
        trace[m].op \in {"ArchiveDir", "UploadDir", "UploadFile",
                         "FetchGPGPubKeyFromKeyServer", "EncryptFile"}}

ListCalls == {m \in 1..Len(trace) : trace[m].op = "List"}

JobReturned == jobPc = 0 /\ runs > 0

(***************************************************************************)
(* C24: in every run of the scheduled job no call of PurgeOldBackups is    *)
(* made before Backup has returned and notified every directory, every     *)
(* call of Backup precedes every call of PurgeOldBackups, and when the job *)
(* returns PurgeOldBackups has run exactly once, also when directories of  *)
(* that run failed.                                                        *)
(***************************************************************************)
C24_BackupThenPurgeOnce ==
    /\ PurgeCalls # {} =>
          /\ backupRet # "none"
          /\ Len(SelectSeq(notifs, LAMBDA nt : nt.kind # "deleteFailure")) = Len(cfg.Dirs)
    /\ \A b \in BackupCalls, p \in PurgeCalls : b < p
    /\ Cardinality(ListCalls) <= 1
    /\ purgeRet # "none" => backupRet # "none"
    /\ JobReturned =>
          /\ backupRet # "none"
          /\ purgeRet # "none"
          /\ Cardinality(ListCalls) = 1

C24_Witness ==
    /\ JobReturned
    /\ runs = 2
    /\ Len(cfg.Dirs) >= 2
    /\ ~PipelineSucceeded(1)
    /\ PipelineSucceeded(2)
    /\ \E m \in 1..Len(trace) : trace[m].op = "Delete" /\ trace[m].ok

(***************************************************************************)
(* Observations on a validated configuration.                              *)
(***************************************************************************)
Keyless(b) == b.Encryption.GPG.KeyServer = "" \/ b.Encryption.GPG.KeyID = ""

(***************************************************************************)
(* C25: validating a configuration that passes the dirs, retention-count   *)
(* and cron checks and has encryption and archive-dirs both enabled        *)
(* returns no error; it disables encryption and changes nothing else when  *)
(* the GPG key server or key ID is empty, and changes nothing when both    *)
(* are set; so after every validation without error, encryption enabled    *)
(* implies a non-empty key server and key ID.                              *)
(***************************************************************************)
C25_EncryptionNeedsGPGKey ==
    validateErr # "unset" =>
        /\ (OtherwiseValid(rawCfg) /\ rawCfg.Encryption.Enabled /\ rawCfg.ArchiveDirs) =>
              /\ validateErr = NoError
              /\ Keyless(rawCfg) => cfg = [rawCfg EXCEPT !.Encryption.Enabled = FALSE]
              /\ ~Keyless(rawCfg) => cfg = rawCfg
        /\ validateErr = NoError => (cfg.Encryption.Enabled => ~Keyless(cfg))

C25_Witness ==
    /\ validateErr = NoError
    /\ rawCfg.Encryption.Enabled
    /\ rawCfg.ArchiveDirs
    /\ rawCfg.Encryption.GPG.KeyServer # ""
    /\ rawCfg.Encryption.GPG.KeyID = ""
    /\ ~cfg.Encryption.Enabled

(***************************************************************************)
(* C26: validate returns "dirs is required" for an empty dirs, else        *)
(* "retention-count must be greater than 0" for a retention count of zero  *)
(* or less, else "cron is required" for an empty cron expression, and      *)
(* leaves a rejected configuration as it was; a validated configuration    *)
(* has a directory and a retention count of at least 1, and a purge under  *)
(* it neither requests the deletion of the newest listed backup nor        *)
(* removes it.                                                             *)
(***************************************************************************)
C26_RequiredFieldsInOrder ==
    /\ validateErr # "unset" =>
          /\ Len(rawCfg.Dirs) = 0 => validateErr = "dirs is required"
          /\ (Len(rawCfg.Dirs) > 0 /\ rawCfg.RetentionCount <= 0) =>
                validateErr = "retention-count must be greater than 0"
          /\ (Len(rawCfg.Dirs) > 0 /\ rawCfg.RetentionCount > 0 /\ rawCfg.Cron = "") =>
                validateErr = "cron is required"
          /\ validateErr # NoError => cfg = rawCfg
          /\ validateErr = NoError => (Len(cfg.Dirs) >= 1 /\ cfg.RetentionCount >= 1)
    /\ (pc \in {"delete", "done"} /\ Len(keys) > 0) =>
          /\ BuildTimestampedKey(Prefix, Hostname, keys[1]) \in storage
          /\ \A n \in 1..Len(DeleteCalls) : DeleteCalls[n].dir # keys[1]

C26_Witness ==
    /\ validateErr = NoError
    /\ cfg.RetentionCount = 1
    /\ PurgeReturned
    /\ Len(keys) = InitKeys
    /\ \A n \in 1..Len(DeleteCalls) : DeleteCalls[n].ok
    /\ StoredTimestamps = {keys[1]}

(***************************************************************************)
(* Observations on the GetConfig calls.                                    *)
(***************************************************************************)
Succeeded == {m \in 1..Len(getTrace) : getTrace[m].err = NoError}

FirstSucceeded == CHOOSE m \in Succeeded : \A k \in Succeeded : m <= k

(***************************************************************************)
(* C27: a GetConfig call loads if and only if no earlier call succeeded;   *)
(* a call that fails returns its error and a nil configuration and leaves  *)
(* Current unset; every call from the first successful one on returns no   *)
(* error and the configuration that call loaded, whatever path it is       *)
(* given, and Current is that configuration.                               *)
(***************************************************************************)
C27_LoadsOnceThenCached ==
    /\ \A n \in 1..Len(getTrace) :
          /\ getTrace[n].loaded <=> (\A m \in Succeeded : m >= n)
          /\ getTrace[n].err # NoError => getTrace[n].cfg = NilConfig
          /\ (\E m \in Succeeded : m <= n) =>
                /\ getTrace[n].err = NoError
                /\ getTrace[n].cfg = getTrace[FirstSucceeded].cfg
    /\ Succeeded = {} => Current = NilConfig
    /\ Succeeded # {} =>
          /\ Current = getTrace[FirstSucceeded].cfg
          /\ Current = LoadConfig(getTrace[FirstSucceeded].path).cfg
          /\ Current.set

C27_Witness ==
    /\ Len(getTrace) >= 3
    /\ getTrace[1].err = "dirs is required"
    /\ getTrace[2].path = "/etc/arclift/a.yaml"
    /\ getTrace[2].loaded
    /\ getTrace[3].path = "/etc/arclift/b.yaml"
    /\ ~getTrace[3].loaded
    /\ getTrace[3].cfg = getTrace[2].cfg
    /\ ~getTrace[3].cfg.cfg.Encryption.Enabled

(***************************************************************************)
(* C28: in the archived pipeline with encryption enabled, the path handed  *)
(* to UploadFile is the encrypted file of the directory's archive, never   *)
(* the archive; EncryptFile is called only after the key fetch succeeded,  *)
(* and UploadFile only after EncryptFile succeeded, so none is called      *)
(* after a failed key fetch or a failed encryption.                        *)
(***************************************************************************)
C28_OnlyEncryptedUploaded ==
    (cfg.ArchiveDirs /\ cfg.Encryption.Enabled) =>
        /\ (pc = "uploadFile" \/ (pc = "notify" /\ CallsOf({"UploadFile"}, i) # {})) =>
              /\ uploadPath = EncryptedPath(ArchivePath(i))
              /\ uploadPath # ArchivePath(i)
        /\ \A d \in ConfiguredDirs :
              /\ \A m \in CallsOf({"EncryptFile"}, d) :
                    \E f \in OkCallsOf({"FetchGPGPubKeyFromKeyServer"}, d) : f < m
              /\ \A m \in CallsOf({"UploadFile"}, d) :
                    \E e \in OkCallsOf({"EncryptFile"}, d) : e < m
              /\ (\E f \in CallsOf({"FetchGPGPubKeyFromKeyServer"}, d) : ~trace[f].ok) =>
                    CallsOf({"EncryptFile", "UploadFile"}, d) = {}
              /\ (\E e \in CallsOf({"EncryptFile"}, d) : ~trace[e].ok) =>
                    CallsOf({"UploadFile"}, d) = {}

C28_Witness ==
    /\ pc = "done"
    /\ cfg.ArchiveDirs
    /\ cfg.Encryption.Enabled
    /\ Len(cfg.Dirs) >= 2
    /\ \E f \in CallsOf({"FetchGPGPubKeyFromKeyServer"}, 1) : ~trace[f].ok
    /\ PipelineSucceeded(2)
    /\ uploadPath = EncryptedPath(ArchivePath(2))

(***************************************************************************)
(* C29: a key whose delete failed stays in storage, and every later purge  *)
(* that lists it beyond the retentionCount newest keys makes it a deletion *)
(* candidate again; with no upload in between, a purge whose deletes all   *)
(* succeed leaves at most retentionCount keys of the host, and a purge     *)
(* that lists no more than retentionCount keys requests no deletion.       *)
(***************************************************************************)
BeyondRetention(t) == Cardinality({u \in Listed : u > t}) >= cfg.RetentionCount

Candidates == {keysToDelete[n] : n \in 1..Len(keysToDelete)}

C29_FailedDeleteIsRetried ==
    /\ \A n \in DeleteRequests : ~trace[n].ok => trace[n].dir \in StoredTimestamps
    /\ \A t \in failedBefore : t \in StoredTimestamps \/ t \in Removed
    /\ (pc \in {"delete", "done"} /\ ListSucceeded) =>
          \A t \in failedBefore :
             /\ t \in Listed
             /\ BeyondRetention(t) => t \in Candidates
    /\ PurgeReturned =>
          \A t \in failedBefore : BeyondRetention(t) => t \in Requested
    /\ (PurgeReturned /\ ListSucceeded /\ FailedDeletes = <<>>) =>
          Cardinality(StoredTimestamps) <= cfg.RetentionCount
    /\ (PurgeReturned /\ Len(keys) <= cfg.RetentionCount) =>
          /\ DeleteRequests = {}
          /\ StoredTimestamps = Listed

C29_Witness ==
    /\ PurgeReturned
    /\ ListSucceeded
    /\ FailedDeletes = <<>>
    /\ \E t \in failedBefore : t \in Removed /\ t \notin StoredTimestamps
    /\ Cardinality(StoredTimestamps) = cfg.RetentionCount

(***************************************************************************)
(* A purge running while the job of another tick is in its Backup: the     *)
(* other Backup reaches the bucket through its uploads, which the store    *)
(* serves between the calls of the purge.                                  *)
(***************************************************************************)
MaxUploads == 1

UploadCalls == {n \in 1..Len(trace) : trace[n].op = "UploadFile"}

\* S3.UploadFile called by the Backup of an overlapping run of the job
OverlappingUpload ==
    /\ Cardinality(UploadCalls) < MaxUploads
    /\ \E ok \in BOOLEAN :
          /\ ok => ~cancelled
          /\ trace' = Append(trace,
                 IF ok THEN Uploaded("UploadFile", 1, 0,
                                     BuildTimestampedKey(Prefix, Hostname, now))
                 ELSE Called("UploadFile", 1, FALSE, 0))
          /\ storage' = IF ok
                        THEN storage \cup {BuildTimestampedKey(Prefix, Hostname, now)}
                        ELSE storage
    /\ UNCHANGED <<configVars, hostVars, delivered, now, cancelled, pc, backupVars,
                   notifs, purgeVars>>

InitOverlap ==
    /\ NoNotifiers
    /\ cfg \in PurgeConfigs
    /\ rawCfg = cfg
    /\ \E own \in SUBSET OwnKeys : storage = own
    /\ Untouched

NextOverlap ==
    \/ PurgeList
    \/ PurgeDelete
    \/ PurgeDone
    \/ OverlappingUpload
    \/ Tick

SpecOverlap == InitOverlap /\ [][NextOverlap]_vars

(***************************************************************************)
(* C30: a purge that overlaps a Backup requests deletes only for the keys  *)
(* of its own listing that come after the retentionCount newest: none of   *)
(* the retentionCount newest keys of that listing is requested or removed, *)
(* and a key uploaded after the listing was taken is never requested and   *)
(* stays in storage.                                                       *)
(***************************************************************************)
ListedAt == CHOOSE n \in 1..Len(trace) : trace[n].op = "List"

UploadedAfterListing ==
    {trace[n].key : n \in {m \in UploadCalls : trace[m].ok /\ m > ListedAt}}

TailOfListing == {keys[n] : n \in (cfg.RetentionCount + 1)..Len(keys)}

NewestOfListing ==
    {keys[n] : n \in 1..(IF Len(keys) < cfg.RetentionCount
                         THEN Len(keys) ELSE cfg.RetentionCount)}

C30_OverlappingPurgeDeletesOnlyItsTail ==
    /\ ListFailed => DeleteRequests = {}
    /\ ListSucceeded =>
          /\ Requested \subseteq TailOfListing
          /\ \A t \in NewestOfListing :
                t \notin Requested /\ t \in StoredTimestamps
          /\ \A k \in UploadedAfterListing :
                k \in storage /\ k[3] \notin Requested

C30_Witness ==
    /\ PurgeReturned
    /\ \E u \in UploadCalls, d \in DeleteRequests :
          /\ trace[u].ok
          /\ trace[d].ok
          /\ ListedAt < u
          /\ u < d
          /\ trace[u].key[3] \notin Listed
          /\ trace[u].key \in storage
    /\ Cardinality(StoredTimestamps) > cfg.RetentionCount

====
